---- MODULE Spec2Model ----
(***************************************************************************)
(* A model of src/firebase_manager.py: the FirebaseManager singleton, its  *)
(* lazily loaded Firestore handle, the get_batch_writer context manager    *)
(* and the retried read get_document.                                      *)
(*                                                                         *)
(* Three specifications share the variables below:                         *)
(*   SpecBatch  one caller running get_batch_writer scopes one after the   *)
(*              other;                                                     *)
(*   SpecRead   one caller running get_document calls;                     *)
(*   SpecConc   NumCallers threads running FirebaseManager() and then .db  *)
(*              with no lock, as the source has none.                      *)
(* The Firestore SDK is outside the repository: its calls are modelled by  *)
(* the outcomes they can have (a value, or an exception).                  *)
(***************************************************************************)
EXTENDS Integers, Sequences, FiniteSets

\* ------------------------------------------------------------- bounds
\* get_batch_writer scopes run one after the other
MaxScopes == 2
\* writes a scope's body adds to the yielded batch
MaxAdds == 3
\* get_document calls run one after the other
MaxCalls == 2
\* threads of SpecConc
NumCallers == 2
\* distinct handles firestore.client() may return
MaxHandles == 2
\* largest backoff ceiling the sleeps are compared with
MaxCeiling == 4
\* validate_all calls of one process, the one of the import included
MaxValidates == 3
\* _initialize runs of one process in SpecConfig
MaxConnects == 3
\* FirebaseManager() calls of the caller of SpecLife
MaxConstructs == 4

\* ------------------------------------------------------ program values
\* Python's None, for _instance and _db
None == 0
\* batch_size: int = 500
DefaultBatchSize == 500
\* the batch_size arguments tried
BatchSizes == {1, 2, DefaultBatchSize}
\* the writes of a WriteBatch
Ops == {"set", "delete"}
\* exceptions a scope's body may raise
BodyExcs == {"ValueError", "KeyError"}

VARIABLES
  \* ---- the manager (class attributes, the SDK's app registry)
  instance,          \* cls._instance: None or an object id
  objDb,             \* self._db of each object: None or a handle
  apps,              \* firebase_admin._apps is non-empty
  initRuns,          \* how many times _initialize was entered
  nObjs,             \* objects allocated by super().__new__
  nHandles,          \* distinct handles returned by firestore.client()
  \* ---- get_batch_writer
  scopeNo,           \* the scope being run
  bpc,               \* where the scope is
  batch_size,        \* the batch_size argument
  batch,             \* the pending writes of the yielded batch
  operations_count,  \* the local operations_count
  added,             \* the writes the body added in this scope, in order
  commits,           \* the batch.commit() calls of this scope: what each carried
  exitKind,          \* how the body ended: "none", "normal", "raised"
  inflight,          \* the exception in flight in the generator
  propagated,        \* the exception the with-statement's caller sees
  lastAbort,         \* the last aborted scope: what was pending, raised, seen
  \* ---- get_document
  callNo,            \* the get_document call being run
  rpc,               \* where the call is
  attempt,           \* the loop variable
  outcomes,          \* what each run of the try body came to, in order
  sleeps,            \* the arguments of the time.sleep calls, in order
  exc,               \* the exception caught, or raised out of the call
  retKind,           \* how the call ended: "none", "record", "None", "raised"
  retVal,            \* the record returned
  doc_id,            \* the doc_id argument
  stored,            \* the snapshot the store answers with
  \* ---- SpecConc's threads
  tpc,               \* each thread's place in the code
  tself,             \* self of the _initialize a thread is running
  tret,              \* where that _initialize returns to
  tinst,             \* the object FirebaseManager() returned to the thread
  thandle,           \* the handle .db returned to the thread
  terr,              \* the exception that ended the thread's calls
  extFaults,         \* SDK calls that failed for a reason outside the program
  tcalls,            \* the FirebaseManager() calls each thread has begun
  \* ---- config.py and the files it looks at
  envProject,        \* FIREBASE_PROJECT_ID in the environment, or unset
  credExists,        \* os.path.exists(credentials_path)
  logDirExists,      \* the directory of the log file exists
  cfg,               \* the import of config: "unloaded", "loaded", "failed"
  project_id,        \* FirebaseConfig.project_id
  cfgErr,            \* the exception that ended the import
  validateRuns,      \* validate_all calls begun
  lastErr,           \* the exception of the last validate_all call
  dirsCreated        \* directories os.makedirs has created

mgrVars == <<instance, objDb, apps, initRuns, nObjs, nHandles>>
batchVars == <<scopeNo, bpc, batch_size, batch, operations_count, added,
               commits, exitKind, inflight, propagated, lastAbort>>
readVars == <<callNo, rpc, attempt, outcomes, sleeps, exc, retKind, retVal,
              doc_id, stored>>
concVars == <<tpc, tself, tret, tinst, thandle, terr, extFaults, tcalls>>
cfgVars == <<envProject, credExists, logDirExists, cfg, project_id, cfgErr,
             validateRuns, lastErr, dirsCreated>>
vars == <<mgrVars, batchVars, readVars, concVars, cfgVars>>

\* ---------------------------------------------------------------- helpers
Min(a, b) == IF a <= b THEN a ELSE b
Max(a, b) == IF a >= b THEN a ELSE b

\* no scope was aborted yet
NoAbort == [pending |-> <<>>, raised |-> "none", seen |-> "none"]

\* ------------------------------------------- the manager, run by one caller
\* _initialize run to its end by a single caller: the outcomes of
\* credentials.Certificate / initialize_app (only when no app is registered)
\* and of firestore.client(). A failure leaves self._db as it was, None.
InitializeOutcomes(a, nh) ==
  (IF a THEN {}
   ELSE {[ok |-> FALSE, apps |-> FALSE, db |-> None, nHandles |-> nh]})
  \cup {[ok |-> FALSE, apps |-> TRUE, db |-> None, nHandles |-> nh]}
  \cup {[ok |-> TRUE, apps |-> TRUE, db |-> h, nHandles |-> Max(nh, h)] :
          h \in 1..Min(nh + 1, MaxHandles)}

\* the db property: _initialize only when self._db is None
DbOutcomes(a, d, nh) ==
  IF d # None
  THEN {[ok |-> TRUE, apps |-> a, db |-> d, nHandles |-> nh, runs |-> 0]}
  ELSE {[ok |-> r.ok, apps |-> r.apps, db |-> r.db, nHandles |-> r.nHandles,
         runs |-> 1] : r \in InitializeOutcomes(a, nh)}

\* the manager as db access outcome r leaves it
MgrAfter(r) ==
  /\ apps' = r.apps
  /\ objDb' = [objDb EXCEPT ![instance] = r.db]
  /\ nHandles' = r.nHandles
  /\ initRuns' = initRuns + r.runs
  /\ UNCHANGED <<instance, nObjs>>

\* The manager after the first FirebaseManager() of a single caller returned
\* or raised: one object registered, _initialize run once, and a handle only
\* if it succeeded.
MgrInitSeq ==
  /\ instance = 1
  /\ nObjs = 1
  /\ initRuns = 1
  /\ \E r \in InitializeOutcomes(FALSE, 0) :
       /\ apps = r.apps
       /\ objDb = [o \in 1..NumCallers |-> IF o = 1 THEN r.db ELSE None]
       /\ nHandles = r.nHandles

\* ------------------------------------------------------- get_batch_writer
BatchIdle ==
  /\ scopeNo = 0
  /\ bpc = "idle"
  /\ batch_size = DefaultBatchSize
  /\ batch = <<>>
  /\ operations_count = 0
  /\ added = <<>>
  /\ commits = <<>>
  /\ exitKind = "none"
  /\ inflight = "none"
  /\ propagated = "none"
  /\ lastAbort = NoAbort

\* a counter that starts at one
InitialCountOne == 0 + 1

\* operations_count = 0
InitialCount == 0

\* a commit also when the counter is zero
ShouldCommitNonNegative(count) == count >= 0

\* if operations_count > 0:
ShouldCommit(count) == count > 0

\* an except clause that logs and does not re-raise
Swallow(e) == "none"

\* except Exception as e: ...; raise
Reraise(e) == e

\* get_batch_writer up to its yield: batch = self.db.batch(), the counter set.
\* self.db stands before the try, so its failure leaves the scope unentered,
\* with no counter set.
Enter ==
  /\ bpc \in {"idle", "closed"}
  /\ scopeNo < MaxScopes
  /\ \E bs \in BatchSizes : \E r \in DbOutcomes(apps, objDb[instance], nHandles) :
       /\ MgrAfter(r)
       /\ scopeNo' = scopeNo + 1
       /\ batch_size' = bs
       /\ batch' = <<>>
       /\ operations_count' = IF r.ok THEN InitialCount ELSE 0
       /\ added' = <<>>
       /\ commits' = <<>>
       /\ exitKind' = "none"
       /\ inflight' = "none"
       /\ bpc' = IF r.ok THEN "body" ELSE "closed"
       /\ propagated' = IF r.ok THEN "none" ELSE "InitError"
  /\ UNCHANGED <<lastAbort, readVars, concVars,
                 cfgVars>>

\* the body calls batch.set / batch.delete on the yielded batch: the write is
\* appended to the batch; get_batch_writer is not involved
Add ==
  /\ bpc = "body"
  /\ Len(batch) < MaxAdds
  /\ \E op \in Ops :
       /\ batch' = Append(batch, op)
       /\ added' = Append(added, op)
  /\ UNCHANGED <<scopeNo, bpc, batch_size, operations_count, commits, exitKind,
                 inflight, propagated, lastAbort, mgrVars, readVars, concVars,
                 cfgVars>>

\* the body raises: the exception is thrown into the generator at its yield
BodyRaise ==
  /\ bpc = "body"
  /\ \E e \in BodyExcs : inflight' = e
  /\ bpc' = "except"
  /\ exitKind' = "raised"
  /\ UNCHANGED <<scopeNo, batch_size, batch, operations_count, added, commits,
                 propagated, lastAbort, mgrVars, readVars, concVars,
                 cfgVars>>

\* the body ends normally: the generator resumes after its yield
BodyReturn ==
  /\ bpc = "body"
  /\ bpc' = "exit"
  /\ exitKind' = "normal"
  /\ UNCHANGED <<scopeNo, batch_size, batch, operations_count, added, commits,
                 inflight, propagated, lastAbort, mgrVars, readVars, concVars,
                 cfgVars>>

\* after the yield: commit when the counter is positive; a failing commit is
\* caught by the except clause
ExitNormal ==
  /\ bpc = "exit"
  /\ IF ShouldCommit(operations_count)
     THEN /\ commits' = Append(commits, batch)
          /\ \E ok \in BOOLEAN :
               /\ bpc' = IF ok THEN "closed" ELSE "except"
               /\ inflight' = IF ok THEN inflight ELSE "CommitError"
     ELSE /\ bpc' = "closed"
          /\ UNCHANGED <<commits, inflight>>
  /\ UNCHANGED <<scopeNo, batch_size, batch, operations_count, added, exitKind,
                 propagated, lastAbort, mgrVars, readVars, concVars,
                 cfgVars>>

\* the except clause: log and re-raise
Handler ==
  /\ bpc = "except"
  /\ propagated' = Reraise(inflight)
  /\ bpc' = "closed"
  /\ lastAbort' = IF exitKind = "raised"
                  THEN [pending |-> batch, raised |-> inflight,
                        seen |-> propagated']
                  ELSE lastAbort
  /\ UNCHANGED <<scopeNo, batch_size, batch, operations_count, added, commits,
                 exitKind, inflight, mgrVars, readVars, concVars,
                 cfgVars>>

\* ------------------------------------------------------------ get_document
\* the doc_id arguments tried
DocIds == {"a", "b"}

\* what the store holds under the document: nothing, or a payload, which may
\* have an "id" field of its own
Payloads == {[name |-> "n"], [name |-> "n", id |-> "a"], [id |-> "zzz"]}

\* the snapshot of an absent document: doc.exists is False
Missing == [exists |-> FALSE, data |-> <<>>]

\* the snapshots doc_ref.get() may answer with
Snapshots == {Missing} \cup {[exists |-> TRUE, data |-> d] : d \in Payloads}

\* no record returned: None, or nothing yet
NoRecord == <<>>

\* what doc_ref.get() can do: answer, or raise a fault of either class
StoreAnswers == {"ok", "transient", "permanent"}

\* base ** e, as Python's ** on non-negative ints
RECURSIVE Pow(_, _)
Pow(base, e) == IF e = 0 THEN 1 ELSE base * Pow(base, e - 1)

RECURSIVE SumSeq(_)
SumSeq(q) == IF q = <<>> THEN 0 ELSE Head(q) + SumSeq(Tail(q))

\* one retry more
max_retries_more == 3 + 1

\* max_retries = 3
max_retries == 3

\* {'id': doc.id, **doc.to_dict()}: the payload's own id wins
ToRecordPayloadWins(d, id) ==
  [k \in DOMAIN d \cup {"id"} |-> IF k \in DOMAIN d THEN d[k] ELSE id]

\* {**doc.to_dict(), 'id': doc.id}
ToRecord(d, id) ==
  [k \in DOMAIN d \cup {"id"} |-> IF k = "id" THEN id ELSE d[k]]

\* what one run of the try body comes to: the db property raised ("init"),
\* doc_ref.get() raised ("transient", "permanent"), or the document was read
\* ("found") or confirmed absent ("missing")
TryOutcome(dbOk, answer, doc) ==
  IF ~dbOk THEN "init"
  ELSE IF answer # "ok" THEN answer
  ELSE IF doc.exists THEN "found" ELSE "missing"

\* a try body that raises on an absent document
RaisesOnMissing(o) == o \in {"init", "transient", "permanent", "missing"}

\* the try body leaves through except Exception: every exception does, the
\* two returns do not
Raises(o) == o \in {"init", "transient", "permanent"}

\* if attempt == max_retries:
IsLastAttemptOffByOne(a) == a = max_retries

\* if attempt == max_retries - 1:
IsLastAttempt(a) == a = max_retries - 1

\* time.sleep(2 * attempt)
BackoffLinear(a) == 2 * a

\* time.sleep(2 ** attempt)
Backoff(a) == Pow(2, a)

\* get_document(collection, doc_id) is called; the for loop starts at 0
Call ==
  /\ rpc \in {"idle", "done"}
  /\ callNo < MaxCalls
  /\ callNo' = callNo + 1
  /\ \E id \in DocIds : doc_id' = id
  /\ \E d \in Snapshots : stored' = d
  /\ attempt' = 0
  /\ rpc' = IF 0 < max_retries THEN "try" ELSE "done"
  /\ outcomes' = <<>>
  /\ sleeps' = <<>>
  /\ exc' = "none"
  /\ retKind' = IF 0 < max_retries THEN "none" ELSE "None"
  /\ retVal' = NoRecord
  /\ UNCHANGED <<mgrVars, batchVars, concVars,
                 cfgVars>>

\* one run of the try body: self.db, doc_ref.get(), the two returns
Try ==
  /\ rpc = "try"
  /\ \E r \in DbOutcomes(apps, objDb[instance], nHandles) :
     \E answer \in StoreAnswers :
       LET o == TryOutcome(r.ok, answer, stored) IN
       /\ r.ok \/ answer = "ok"
       /\ MgrAfter(r)
       /\ outcomes' = Append(outcomes, o)
       /\ IF Raises(o)
          THEN /\ rpc' = "except"
               /\ exc' = o
               /\ UNCHANGED <<retKind, retVal>>
          ELSE /\ rpc' = "done"
               /\ exc' = "none"
               /\ retKind' = IF o = "found" THEN "record" ELSE "None"
               /\ retVal' = IF o = "found" THEN ToRecord(stored.data, doc_id)
                            ELSE NoRecord
  /\ UNCHANGED <<callNo, attempt, sleeps, doc_id, stored, batchVars, concVars,
                 cfgVars>>

\* the except clause: raise on the last attempt, else sleep and go round the
\* loop; a loop that ran out would end the function, returning None
Except ==
  /\ rpc = "except"
  /\ IF IsLastAttempt(attempt)
     THEN /\ rpc' = "done"
          /\ retKind' = "raised"
          /\ UNCHANGED <<attempt, sleeps, retVal, exc>>
     ELSE /\ sleeps' = Append(sleeps, Backoff(attempt))
          /\ attempt' = attempt + 1
          /\ rpc' = IF attempt + 1 < max_retries THEN "try" ELSE "done"
          /\ retKind' = IF attempt + 1 < max_retries THEN retKind ELSE "None"
          /\ exc' = "none"
          /\ UNCHANGED retVal
  /\ UNCHANGED <<callNo, outcomes, doc_id, stored, mgrVars, batchVars, concVars,
                 cfgVars>>

\* ------------------------------------------ FirebaseManager() and .db, by
\* threads: a step is a statement of the source, and any thread may take the
\* next step, as the source takes no lock
At(t, l) == tpc[t] = l

Goto(t, l) == tpc' = [tpc EXCEPT ![t] = l]

\* __new__: if cls._instance is None or cls._instance._db is None:
NewTestNoHandle(t) ==
  /\ At(t, "new27")
  /\ Goto(t, IF (IF instance = None THEN TRUE ELSE objDb[instance] = None)
             THEN "new28" ELSE "new30")
  /\ UNCHANGED <<mgrVars, tself, tret, tinst, thandle, terr, extFaults,
                 tcalls, batchVars, readVars, cfgVars>>

\* __new__: if cls._instance is None:
NewTest(t) ==
  /\ At(t, "new27")
  /\ Goto(t, IF instance = None THEN "new28" ELSE "new30")
  /\ UNCHANGED <<mgrVars, tself, tret, tinst, thandle, terr, extFaults,
                 tcalls, batchVars, readVars,
                 cfgVars>>

\* __new__: cls._instance = super(FirebaseManager, cls).__new__(cls)
NewCreate(t) ==
  /\ At(t, "new28")
  /\ nObjs' = nObjs + 1
  /\ instance' = nObjs + 1
  /\ Goto(t, "new29")
  /\ UNCHANGED <<objDb, apps, initRuns, nHandles, tself, tret, tinst, thandle,
                 terr, extFaults, tcalls, batchVars, readVars,
                 cfgVars>>

\* __new__: cls._instance._initialize(), on the object cls._instance names now
NewInitialize(t) ==
  /\ At(t, "new29")
  /\ tself' = [tself EXCEPT ![t] = instance]
  /\ tret' = [tret EXCEPT ![t] = "new30"]
  /\ initRuns' = initRuns + 1
  /\ Goto(t, "init35")
  /\ UNCHANGED <<instance, objDb, apps, nObjs, nHandles, tinst, thandle, terr,
                 extFaults, tcalls, batchVars, readVars,
                 cfgVars>>

\* __new__: return cls._instance
NewReturn(t) ==
  /\ At(t, "new30")
  /\ tinst' = [tinst EXCEPT ![t] = instance]
  /\ Goto(t, "db50")
  /\ UNCHANGED <<mgrVars, tself, tret, thandle, terr, extFaults, tcalls, batchVars,
                 readVars,
                 cfgVars>>

\* _initialize: if not firebase_admin._apps:
InitTestApps(t) ==
  /\ At(t, "init35")
  /\ Goto(t, IF apps THEN "init41" ELSE "init36")
  /\ UNCHANGED <<mgrVars, tself, tret, tinst, thandle, terr, extFaults,
                 tcalls, batchVars, readVars,
                 cfgVars>>

\* _initialize: cred = credentials.Certificate(...), which may raise
InitCertificate(t) ==
  /\ At(t, "init36")
  /\ \E ok \in BOOLEAN :
       /\ Goto(t, IF ok THEN "init37" ELSE "init43")
       /\ extFaults' = IF ok THEN extFaults ELSE extFaults + 1
  /\ UNCHANGED <<mgrVars, tself, tret, tinst, thandle, terr, tcalls, batchVars,
                 readVars,
                 cfgVars>>

\* _initialize: firebase_admin.initialize_app(cred, ...), which registers the
\* default app and raises ValueError when one is registered already
InitApp(t) ==
  /\ At(t, "init37")
  /\ Goto(t, IF apps THEN "init43" ELSE "init41")
  /\ apps' = TRUE
  /\ UNCHANGED <<instance, objDb, initRuns, nObjs, nHandles, tself, tret,
                 tinst, thandle, terr, extFaults, tcalls, batchVars, readVars,
                 cfgVars>>

\* _initialize: self._db = firestore.client(), which may raise
InitClient(t) ==
  /\ At(t, "init41")
  /\ \E h \in 0..Min(nHandles + 1, MaxHandles) :
       /\ Goto(t, IF h # None THEN tret[t] ELSE "init43")
       /\ objDb' = [objDb EXCEPT ![tself[t]] = IF h # None THEN h ELSE @]
       /\ nHandles' = Max(nHandles, h)
       /\ extFaults' = IF h # None THEN extFaults ELSE extFaults + 1
  /\ UNCHANGED <<instance, apps, initRuns, nObjs, tself, tret, tinst, thandle,
                 terr, tcalls, batchVars, readVars,
                 cfgVars>>

\* _initialize: except Exception: log, raise; neither __new__ nor db catches
InitRaise(t) ==
  /\ At(t, "init43")
  /\ terr' = [terr EXCEPT ![t] = "InitError"]
  /\ Goto(t, "done")
  /\ UNCHANGED <<mgrVars, tself, tret, tinst, thandle, extFaults, tcalls, batchVars,
                 readVars,
                 cfgVars>>

\* db: if self._db is None:
DbTest(t) ==
  /\ At(t, "db50")
  /\ Goto(t, IF objDb[tinst[t]] = None THEN "db51" ELSE "db52")
  /\ UNCHANGED <<mgrVars, tself, tret, tinst, thandle, terr, extFaults,
                 tcalls, batchVars, readVars,
                 cfgVars>>

\* db: self._initialize()
DbInitialize(t) ==
  /\ At(t, "db51")
  /\ tself' = [tself EXCEPT ![t] = tinst[t]]
  /\ tret' = [tret EXCEPT ![t] = "db52"]
  /\ initRuns' = initRuns + 1
  /\ Goto(t, "init35")
  /\ UNCHANGED <<instance, objDb, apps, nObjs, nHandles, tinst, thandle, terr,
                 extFaults, tcalls, batchVars, readVars,
                 cfgVars>>

\* db: return self._db
DbReturn(t) ==
  /\ At(t, "db52")
  /\ thandle' = [thandle EXCEPT ![t] = objDb[tinst[t]]]
  /\ Goto(t, "done")
  /\ UNCHANGED <<mgrVars, tself, tret, tinst, terr, extFaults, tcalls, batchVars,
                 readVars,
                 cfgVars>>

\* ---------------------------------------------------- the parts not running
Callers == 1..NumCallers

ReadIdle ==
  /\ callNo = 0
  /\ rpc = "idle"
  /\ attempt = 0
  /\ outcomes = <<>>
  /\ sleeps = <<>>
  /\ exc = "none"
  /\ retKind = "none"
  /\ retVal = NoRecord
  /\ doc_id = "a"
  /\ stored = Missing

ConcIdle ==
  /\ tpc = [t \in Callers |-> "off"]
  /\ tself = [t \in Callers |-> None]
  /\ tret = [t \in Callers |-> "none"]
  /\ tinst = [t \in Callers |-> None]
  /\ thandle = [t \in Callers |-> None]
  /\ terr = [t \in Callers |-> "none"]
  /\ extFaults = 0
  /\ tcalls = [t \in Callers |-> 0]

\* an environment variable that is not set
Unset == "<unset>"

\* config.py imported with its defaults and valid settings, as it must have
\* been for firebase_manager to be imported at all
CfgLoaded ==
  /\ envProject = Unset
  /\ credExists = TRUE
  /\ logDirExists = TRUE
  /\ cfg = "loaded"
  /\ project_id = "acdgp-default"
  /\ cfgErr = "none"
  /\ validateRuns = 1
  /\ lastErr = "none"
  /\ dirsCreated = 0

\* ------------------------------------------------------------- SpecBatch
InitBatch == MgrInitSeq /\ BatchIdle /\ ReadIdle /\ ConcIdle /\ CfgLoaded

NextBatch ==
  \/ Enter
  \/ Add
  \/ BodyRaise
  \/ BodyReturn
  \/ ExitNormal
  \/ Handler

SpecBatch == InitBatch /\ [][NextBatch]_vars

\* a scope whose body ended normally and that is closed
ClosedNormally == bpc = "closed" /\ exitKind = "normal"

\* a scope whose body raised and that is closed
ClosedByRaise == bpc = "closed" /\ exitKind = "raised"

\* C1: a scope whose body added n >= 1 writes and ended normally has issued
\* exactly one commit, carrying those n writes in insertion order.
C1_OneCommitOnNormalExit ==
  (ClosedNormally /\ Len(added) >= 1) => commits = <<added>>

\* C2: operations_count is 0 in every state of a scope and no commit is ever
\* issued, whatever the body added and however the scope ends.
C2_CounterZeroNeverCommits ==
  /\ operations_count = 0
  /\ commits = <<>>

\* C2's case: a scope with 3 pending writes closed normally, nothing committed
C2_Witness ==
  /\ ClosedNormally
  /\ Len(batch) = 3
  /\ batch = added
  /\ commits = <<>>

\* C3: a scope whose body raised after k >= 0 adds issues no commit, the
\* caller sees the exception the body raised, and the pending writes of an
\* aborted scope are in no later scope's batch or commit.
C3_AbortDiscardsAndPropagates ==
  /\ exitKind = "raised" => commits = <<>>
  /\ ClosedByRaise => (propagated = inflight /\ propagated \in BodyExcs)
  /\ lastAbort # NoAbort => (lastAbort.seen = lastAbort.raised
                             /\ lastAbort.seen \in BodyExcs)
  /\ bpc \in {"body", "exit", "except", "closed"} => batch = added
  /\ \A i \in 1..Len(commits) : commits[i] = added

\* C3's case: a scope aborted by KeyError with 2 pending writes, and the next
\* scope running with 1 write of its own
C3_Witness ==
  /\ scopeNo = 2
  /\ lastAbort = [pending |-> <<"set", "delete">>, raised |-> "KeyError",
                  seen |-> "KeyError"]
  /\ bpc = "body"
  /\ batch = <<"set">>

\* C4: a scope that ended normally with no pending write issued no commit.
C4_NoCommitOnEmpty ==
  (exitKind = "normal" /\ bpc \in {"except", "closed"} /\ batch = <<>>)
    => commits = <<>>

\* C4's case: an entered scope closed normally with nothing added
C4_Witness ==
  /\ ClosedNormally
  /\ added = <<>>
  /\ batch = <<>>
  /\ propagated = "none"

\* C5: the pending writes of a scope never outnumber its batch_size (an add
\* beyond it fails and leaves them as they are).
C5_PendingWithinBatchSize ==
  bpc \in {"body", "exit", "except"} => Len(batch) <= batch_size

\* -------------------------------------------------------------- SpecRead
InitRead == MgrInitSeq /\ BatchIdle /\ ReadIdle /\ ConcIdle /\ CfgLoaded

NextRead ==
  \/ Call
  \/ Try
  \/ Except

SpecRead == InitRead /\ [][NextRead]_vars

\* the attempt outcomes that are faults
Faults == {"init", "transient", "permanent"}

\* the first n attempts all ended in a fault of class f
FirstAre(n, f) == \A i \in 1..n : outcomes[i] = f

\* C6: a get_document call makes at most 3 attempts; it returns the record
\* at the attempt that first succeeds, after j <= 2 transient failures, with
\* no attempt after it; it raises only when 3 attempts failed, and then it
\* does raise, with no fourth attempt.
C6_AtMostThreeAttempts ==
  /\ Len(outcomes) <= 3
  /\ \A i \in 1..Len(outcomes) :
       (outcomes[i] = "found" /\ FirstAre(i - 1, "transient"))
         => /\ i = Len(outcomes)
            /\ rpc = "done"
            /\ retKind = "record"
            /\ retVal = ToRecord(stored.data, doc_id)
  /\ (rpc = "done" /\ retKind = "raised")
       => (Len(outcomes) = 3 /\ \A i \in 1..3 : outcomes[i] \in Faults)
  /\ (rpc = "done" /\ Len(outcomes) = 3 /\ \A i \in 1..3 : outcomes[i] \in Faults)
       => (retKind = "raised" /\ exc = outcomes[3])

\* C6's case: two transient failures, then the record on the third attempt
C6_Witness ==
  /\ rpc = "done"
  /\ outcomes = <<"transient", "transient", "found">>
  /\ retKind = "record"

\* C7: an attempt that finds the document missing ends the call with None:
\* no attempt and no sleep follows it; when it is the first attempt, there
\* was one attempt and no sleep at all.
C7_MissingReturnsNoneAtOnce ==
  \A i \in 1..Len(outcomes) :
    outcomes[i] = "missing"
      => /\ i = Len(outcomes)
         /\ rpc = "done"
         /\ retKind = "None"
         /\ retVal = NoRecord
         /\ Len(sleeps) = i - 1

\* C7's case: the first attempt finds the document missing
C7_Witness ==
  /\ rpc = "done"
  /\ outcomes = <<"missing">>
  /\ sleeps = <<>>
  /\ retKind = "None"

\* C8: an attempt that fails with a permanent fault ends the call: no
\* attempt and no sleep follows it, and the call raises the fault.
C8_PermanentFailsAtOnce ==
  \A i \in 1..Len(outcomes) :
    outcomes[i] = "permanent"
      => /\ i = Len(outcomes)
         /\ Len(sleeps) < i
         /\ rpc = "done" => (retKind = "raised" /\ exc = "permanent")

\* C9: the sleeps of a call are one per failed attempt that is not the last:
\* the sleep after attempt a is 2^a, which is min(2^a, ceiling) for every
\* ceiling of 2 or more; each attempt after the first is preceded by the
\* sleep of the one before, nothing sleeps after the attempt that ends the
\* call, and the sleeps of a call sum to at most 3.
C9_SleepsBetweenAttempts ==
  /\ \A i \in 1..Len(sleeps) : \A c \in 2..MaxCeiling :
       sleeps[i] = Min(Pow(2, i - 1), c)
  /\ rpc = "try" => (Len(sleeps) = Len(outcomes) /\ Len(sleeps) = attempt)
  /\ rpc \in {"except", "done"} => Len(sleeps) = Len(outcomes) - 1
  /\ \A i \in 1..Len(sleeps) : outcomes[i] \in Faults
  /\ SumSeq(sleeps) <= 3

\* C9's case: three failed attempts, a sleep of 1 and a sleep of 2 between
\* them, none after the third
C9_Witness ==
  /\ rpc = "done"
  /\ retKind = "raised"
  /\ Len(outcomes) = 3
  /\ sleeps = <<1, 2>>

\* C15: an authentication failure met while get_document acquires the handle
\* ends the call: the failure is raised to the caller, with no sleep and no
\* further acquisition after it.
C15_AuthFailureNotRetried ==
  \A i \in 1..Len(outcomes) :
    outcomes[i] = "init"
      => /\ i = Len(outcomes)
         /\ Len(sleeps) < i
         /\ rpc = "done" => (retKind = "raised" /\ exc = "init")

\* C16: the record get_document returns has the document's identifier as its
\* "id", whatever "id" the payload holds, and every other field of the
\* payload with the payload's value, and no field more.
C16_IdShadowsPayload ==
  (rpc = "done" /\ retKind = "record") =>
    /\ DOMAIN retVal = DOMAIN stored.data \cup {"id"}
    /\ retVal["id"] = doc_id
    /\ \A k \in DOMAIN stored.data \ {"id"} : retVal[k] = stored.data[k]

\* C16's case: the payload holds an "id" that is not the document's
C16_Witness ==
  /\ rpc = "done"
  /\ retKind = "record"
  /\ stored.data = [id |-> "zzz"]
  /\ doc_id = "b"
  /\ retVal = [id |-> "b"]

\* C17: a call returns None only when its last attempt read the store with
\* no fault and found the document missing; a call all of whose attempts
\* ended in a fault raises the last of them; the loop never runs out into
\* the end of the function.
C17_NoFaultSwallowed ==
  rpc = "done" =>
    /\ retKind \in {"record", "None", "raised"}
    /\ retKind = "None"
         => (outcomes # <<>> /\ outcomes[Len(outcomes)] = "missing")
    /\ (\A i \in 1..Len(outcomes) : outcomes[i] \in Faults)
         => (retKind = "raised" /\ exc = outcomes[Len(outcomes)])
    /\ Len(sleeps) < Len(outcomes)

\* C17's case: three faults of three kinds (the handle's first, as a handle
\* once made is kept), the last one raised
C17_Witness ==
  /\ rpc = "done"
  /\ outcomes = <<"init", "transient", "permanent">>
  /\ retKind = "raised"
  /\ exc = "permanent"

\* -------------------------------------------------------------- SpecConc
\* the process before the first FirebaseManager(): the class attributes as
\* the class statement sets them, no app registered
MgrFresh ==
  /\ instance = None
  /\ objDb = [o \in Callers |-> None]
  /\ apps = FALSE
  /\ initRuns = 0
  /\ nObjs = 0
  /\ nHandles = 0

ConcStart ==
  /\ tpc = [t \in Callers |-> "new27"]
  /\ tself = [t \in Callers |-> None]
  /\ tret = [t \in Callers |-> "none"]
  /\ tinst = [t \in Callers |-> None]
  /\ thandle = [t \in Callers |-> None]
  /\ terr = [t \in Callers |-> "none"]
  /\ extFaults = 0
  /\ tcalls = [t \in Callers |-> 1]

InitConc == MgrFresh /\ BatchIdle /\ ReadIdle /\ ConcStart /\ CfgLoaded

NextConc ==
  \E t \in Callers :
    \/ NewTest(t)
    \/ NewCreate(t)
    \/ NewInitialize(t)
    \/ NewReturn(t)
    \/ InitTestApps(t)
    \/ InitCertificate(t)
    \/ InitApp(t)
    \/ InitClient(t)
    \/ InitRaise(t)
    \/ DbTest(t)
    \/ DbInitialize(t)
    \/ DbReturn(t)

SpecConc == InitConc /\ [][NextConc]_vars

\* the callers whose FirebaseManager() and .db both returned
Served == {t \in Callers : tpc[t] = "done" /\ terr[t] = "none"}

\* C10: while no SDK call fails for a reason of its own, concurrent callers
\* of FirebaseManager() and .db all get the same object and the same handle,
\* none of them fails, and _initialize is entered once and no more.
C10_SingletonUnderConcurrency ==
  extFaults = 0 =>
    /\ \A t \in Callers : terr[t] = "none"
    /\ \A t, u \in Served : tinst[t] = tinst[u] /\ thandle[t] = thandle[u]
    /\ initRuns <= 1
    /\ Served # {} => initRuns = 1

\* --------------------------------------------------------- SpecReconnect
\* the manager registered with no live handle: the first FirebaseManager()
\* failed in _initialize, before or after the app was registered
MgrNoHandle ==
  /\ instance = 1
  /\ nObjs = 1
  /\ initRuns = 1
  /\ apps \in BOOLEAN
  /\ objDb = [o \in Callers |-> None]
  /\ nHandles = 0

\* every thread holds the manager and is about to read its db property
ConcAtDb ==
  /\ tpc = [t \in Callers |-> "db50"]
  /\ tself = [t \in Callers |-> None]
  /\ tret = [t \in Callers |-> "none"]
  /\ tinst = [t \in Callers |-> 1]
  /\ thandle = [t \in Callers |-> None]
  /\ terr = [t \in Callers |-> "none"]
  /\ extFaults = 0
  /\ tcalls = [t \in Callers |-> 1]

InitReconnect == MgrNoHandle /\ BatchIdle /\ ReadIdle /\ ConcAtDb /\ CfgLoaded

NextReconnect ==
  \E t \in Callers :
    \/ InitTestApps(t)
    \/ InitCertificate(t)
    \/ InitApp(t)
    \/ InitClient(t)
    \/ InitRaise(t)
    \/ DbTest(t)
    \/ DbInitialize(t)
    \/ DbReturn(t)

SpecReconnect == InitReconnect /\ [][NextReconnect]_vars

\* the threads inside _initialize
Initializing ==
  {t \in Callers : tpc[t] \in {"init35", "init36", "init37", "init41", "init43"}}

\* C11: with the handle absent and the callers reading db at once, at most
\* one of them is inside _initialize at any time, _initialize is entered once
\* for them all (once more than the failed run before them), and a caller
\* that gets a handle gets the one that run stored.
C11_OneReconnect ==
  /\ Cardinality(Initializing) <= 1
  /\ initRuns <= 2
  /\ \A t, u \in Served : thandle[t] = thandle[u]

\* ---------------------------------------------------------------- config.py
\* the values of FIREBASE_PROJECT_ID tried
EnvProjects == {Unset, "", "p1"}

\* os.getenv(name, default)
Getenv(v, default) == IF v = Unset THEN default ELSE v

\* validate with the two tests in the other order
FirebaseValidatePathFirst(pid, credOk) ==
  IF ~credOk THEN "FileNotFoundError"
  ELSE IF pid = "" THEN "ValueError" ELSE "none"

\* FirebaseConfig.validate: the exception it raises, or "none"
FirebaseValidate(pid, credOk) ==
  IF pid = "" THEN "ValueError"
  ELSE IF ~credOk THEN "FileNotFoundError" ELSE "none"

\* os.makedirs(..., exist_ok=False)
SetupDirectoriesStrict(dirExists) ==
  IF dirExists
  THEN {[err |-> "FileExistsError", exists |-> TRUE, created |-> 0]}
  ELSE {[err |-> "none", exists |-> TRUE, created |-> 1],
        [err |-> "OSError", exists |-> FALSE, created |-> 0]}

\* LoggingConfig.setup_directories: os.makedirs(..., exist_ok=True) does
\* nothing to a directory that exists, and creates it or fails otherwise
SetupDirectories(dirExists) ==
  IF dirExists
  THEN {[err |-> "none", exists |-> TRUE, created |-> 0]}
  ELSE {[err |-> "none", exists |-> TRUE, created |-> 1],
        [err |-> "OSError", exists |-> FALSE, created |-> 0]}

\* validate_all without self.firebase.validate()
ValidateAllNoFirebase(pid, credOk, dirExists) == SetupDirectories(dirExists)

\* ACDGPConfig.validate_all: firebase.validate(), then setup_directories()
ValidateAllOutcomes(pid, credOk, dirExists) ==
  IF FirebaseValidate(pid, credOk) # "none"
  THEN {[err |-> FirebaseValidate(pid, credOk), exists |-> dirExists,
         created |-> 0]}
  ELSE SetupDirectories(dirExists)

\* the process before config is imported
CfgUnloaded ==
  /\ envProject \in EnvProjects
  /\ credExists \in BOOLEAN
  /\ logDirExists \in BOOLEAN
  /\ cfg = "unloaded"
  /\ project_id = Unset
  /\ cfgErr = "none"
  /\ validateRuns = 0
  /\ lastErr = "none"
  /\ dirsCreated = 0

\* import config: the class bodies read the environment, and
\* CONFIG = ACDGPConfig() runs validate_all; an exception ends the import
\* with no CONFIG
ImportConfig ==
  /\ cfg = "unloaded"
  /\ project_id' = Getenv(envProject, "acdgp-default")
  /\ validateRuns' = validateRuns + 1
  /\ \E r \in ValidateAllOutcomes(project_id', credExists, logDirExists) :
       /\ cfg' = IF r.err = "none" THEN "loaded" ELSE "failed"
       /\ cfgErr' = r.err
       /\ lastErr' = r.err
       /\ logDirExists' = r.exists
       /\ dirsCreated' = dirsCreated + r.created
  /\ UNCHANGED <<envProject, credExists, mgrVars, batchVars, readVars, concVars>>

\* CONFIG.validate_all() called again
ValidateAgain ==
  /\ cfg = "loaded"
  /\ validateRuns < MaxValidates
  /\ validateRuns' = validateRuns + 1
  /\ \E r \in ValidateAllOutcomes(project_id, credExists, logDirExists) :
       /\ lastErr' = r.err
       /\ logDirExists' = r.exists
       /\ dirsCreated' = dirsCreated + r.created
  /\ UNCHANGED <<envProject, credExists, cfg, project_id, cfgErr, mgrVars,
                 batchVars, readVars, concVars>>

\* credentials.Certificate reads the file: no app is registered from a
\* credentials file that does not exist
CertReadable(r) == (r.apps /\ ~apps) => credExists

\* the first FirebaseManager() of the process, by one caller: firebase_manager
\* is importable only when its `from config import CONFIG` succeeded
Construct ==
  /\ cfg = "loaded"
  /\ instance = None
  /\ instance' = 1
  /\ nObjs' = 1
  /\ initRuns' = initRuns + 1
  /\ \E r \in InitializeOutcomes(apps, nHandles) :
       /\ CertReadable(r)
       /\ apps' = r.apps
       /\ objDb' = [objDb EXCEPT ![1] = r.db]
       /\ nHandles' = r.nHandles
  /\ UNCHANGED <<batchVars, readVars, concVars, cfgVars>>

\* FirebaseManager().db by the same caller, later
AccessDb ==
  /\ instance # None
  /\ initRuns < MaxConnects
  /\ \E r \in DbOutcomes(apps, objDb[instance], nHandles) :
       /\ CertReadable(r)
       /\ MgrAfter(r)
  /\ UNCHANGED <<batchVars, readVars, concVars, cfgVars>>

\* ------------------------------------------------------------ SpecConfig
InitConfig == MgrFresh /\ BatchIdle /\ ReadIdle /\ ConcIdle /\ CfgUnloaded

NextConfig ==
  \/ ImportConfig
  \/ ValidateAgain
  \/ Construct
  \/ AccessDb

SpecConfig == InitConfig /\ [][NextConfig]_vars

\* C12: _initialize runs only after the settings were validated with success;
\* when the credentials file does not exist as config is loaded, the import
\* of config fails with the validation's exception and no connection is ever
\* attempted.
C12_ValidatedBeforeConnect ==
  /\ initRuns > 0 => (cfg = "loaded" /\ cfgErr = "none" /\ credExists
                      /\ project_id # "")
  /\ (~credExists /\ cfg # "unloaded")
       => (cfg = "failed" /\ cfgErr \in {"ValueError", "FileNotFoundError"}
           /\ initRuns = 0 /\ instance = None)

\* C12's case: config imported with a project id and no credentials file
C12_Witness ==
  /\ ~credExists
  /\ project_id = "p1"
  /\ cfg = "failed"
  /\ cfgErr = "FileNotFoundError"
  /\ initRuns = 0

\* C13: loading fails with ValueError when the project id is empty, with
\* FileNotFoundError when the project id is there and the credentials file is
\* not, with ValueError when both are wrong; a failed load leaves no CONFIG,
\* so nothing is validated again or connected.
C13_LoadFailsOnBadSettings ==
  cfg # "unloaded" =>
    /\ project_id = "" => (cfg = "failed" /\ cfgErr = "ValueError")
    /\ (project_id # "" /\ ~credExists)
         => (cfg = "failed" /\ cfgErr = "FileNotFoundError")
    /\ cfg = "failed" => (cfgErr # "none" /\ validateRuns = 1 /\ initRuns = 0)
    /\ cfgErr # "none" => cfg = "failed"

\* C13's case: an empty project id and no credentials file
C13_Witness ==
  /\ envProject = ""
  /\ ~credExists
  /\ cfg = "failed"
  /\ cfgErr = "ValueError"

\* C14: with valid settings, a validate_all after the first succeeds and
\* leaves the settings and the files as the first left them: the log
\* directory is there and nothing more is created.
C14_ValidateIdempotent ==
  (cfg = "loaded" /\ validateRuns >= 2) =>
    /\ lastErr = "none"
    /\ logDirExists
    /\ dirsCreated <= 1
    /\ project_id = Getenv(envProject, "acdgp-default")
    /\ cfgErr = "none"

\* C14's case: the import created the log directory and validate_all ran
\* once more
C14_Witness ==
  /\ cfg = "loaded"
  /\ validateRuns = 2
  /\ dirsCreated = 1
  /\ logDirExists
  /\ lastErr = "none"

\* -------------------------------------------------------------- SpecLife
\* one caller, call after call: FirebaseManager(), then its db or not
LifeCallers == {t \in Callers : \A u \in Callers : t <= u}

\* the caller calls FirebaseManager() again, after its last calls ended or
\* without reading db on the object it was given
CallAgain(t) ==
  /\ tpc[t] \in {"done", "db50"}
  /\ tcalls[t] < MaxConstructs
  /\ tcalls' = [tcalls EXCEPT ![t] = @ + 1]
  /\ Goto(t, "new27")
  /\ tinst' = [tinst EXCEPT ![t] = None]
  /\ thandle' = [thandle EXCEPT ![t] = None]
  /\ terr' = [terr EXCEPT ![t] = "none"]
  /\ UNCHANGED <<mgrVars, tself, tret, extFaults, batchVars, readVars, cfgVars>>

ConcOne ==
  /\ tpc = [t \in Callers |-> IF t \in LifeCallers THEN "new27" ELSE "off"]
  /\ tself = [t \in Callers |-> None]
  /\ tret = [t \in Callers |-> "none"]
  /\ tinst = [t \in Callers |-> None]
  /\ thandle = [t \in Callers |-> None]
  /\ terr = [t \in Callers |-> "none"]
  /\ extFaults = 0
  /\ tcalls = [t \in Callers |-> IF t \in LifeCallers THEN 1 ELSE 0]

InitLife == MgrFresh /\ BatchIdle /\ ReadIdle /\ ConcOne /\ CfgLoaded

NextLife ==
  \E t \in LifeCallers :
    \/ NewTest(t)
    \/ NewCreate(t)
    \/ NewInitialize(t)
    \/ NewReturn(t)
    \/ InitTestApps(t)
    \/ InitCertificate(t)
    \/ InitApp(t)
    \/ InitClient(t)
    \/ InitRaise(t)
    \/ DbTest(t)
    \/ DbInitialize(t)
    \/ DbReturn(t)
    \/ CallAgain(t)

SpecLife == InitLife /\ [][NextLife]_vars

\* C18: when the first FirebaseManager() fails in _initialize, the caller
\* gets the exception and the object stays registered with _db None; a later
\* FirebaseManager() creates no object, enters no _initialize and raises
\* nothing, and returns the registered object; every _initialize after the
\* first is entered from db, and a db that returns gives the live handle its
\* object holds.
C18_FailedFirstConstruction ==
  \A t \in LifeCallers :
    /\ (tcalls[t] = 1 /\ tpc[t] = "done" /\ terr[t] = "InitError")
         => (instance = 1 /\ objDb[instance] = None /\ tret[t] = "new30"
             /\ initRuns = 1)
    /\ tcalls[t] >= 2
         => /\ instance = 1
            /\ nObjs = 1
            /\ tpc[t] \notin {"new28", "new29"}
            /\ tpc[t] \in {"new27", "new30", "db50", "db51"} => terr[t] = "none"
            /\ tpc[t] \in {"db50", "db51", "db52"} => tinst[t] = instance
            /\ t \in Initializing => tret[t] = "db52"
    /\ initRuns >= 2 => tret[t] = "db52"
    /\ (tpc[t] = "done" /\ terr[t] = "none")
         => (thandle[t] # None /\ thandle[t] = objDb[tinst[t]])

\* C18's case: the first call failed, the second got the object and left
\* its db alone, the third read db, which ran _initialize and gave a handle
C18_Witness ==
  \E t \in LifeCallers :
    /\ tcalls[t] = 3
    /\ tpc[t] = "done"
    /\ terr[t] = "none"
    /\ extFaults = 1
    /\ initRuns = 2
    /\ tinst[t] = 1
    /\ thandle[t] # None

====
